---- MODULE Spec2Model ----
(***************************************************************************)
(* Taste-profile lifecycle and recommendation engine of the aura service:  *)
(* RecommendationService, TasteProfileService, EmbeddingService,           *)
(* SongSearchService and the /api/v1/recommendations endpoint.             *)
(*                                                                         *)
(* Numbers.  Python floats are modelled by scaled integers:                *)
(*   similarities and feedback values in thousandths (SimScale),           *)
(*   recommendation scores in ten-thousandths (ScoreScale),                *)
(*   blend weights in tenths (WeightScale).                                *)
(* Products are divided with truncation toward zero (Quot).                *)
(***************************************************************************)
EXTENDS Integers, Sequences, FiniteSets, TLC

VARIABLES store, user_profiles, analysis_status, calls, added, nops, ret,
          embedding_cache, profile_embedding_cache, cache_file

vars == <<store, user_profiles, analysis_status, calls, added, nops, ret,
         embedding_cache, profile_embedding_cache, cache_file>>

(***************************************************************************)
(* Bounds of the model.                                                    *)
(***************************************************************************)
MaxCat == 3
MaxLimit == 3
MaxHist == 3
MaxOps == 2
MaxBatch == 2

(***************************************************************************)
(* Scales and program constants.                                           *)
(***************************************************************************)
SimScale == 1000
ScoreScale == 10000
WeightScale == 10

None == "None"

\* context=None
NoContext == [absent |-> TRUE]

\* A missing profile (Python None, or no row / no dictionary entry).
NoProfile == [absent |-> TRUE]

\* A NULL duration_seconds.
NoDuration == -1

Users == {"u1"}
Procs == {1, 2}

(***************************************************************************)
(* Generic helpers.                                                        *)
(***************************************************************************)
SeqsUpTo(S, n) == UNION {[1..k -> S] : k \in 0..n}

Min(a, b) == IF a <= b THEN a ELSE b

Max(a, b) == IF a >= b THEN a ELSE b

Abs(a) == IF a < 0 THEN -a ELSE a

\* Integer division truncating toward zero (the sign of a float quotient is
\* the sign of the numerator for a positive denominator).
Quot(a, b) == IF a >= 0 THEN a \div b ELSE -((-a) \div b)

Take(s, n) == IF n <= 0 THEN <<>> ELSE SubSeq(s, 1, Min(n, Len(s)))

Range(s) == {s[i] : i \in 1..Len(s)}

\* The largest r in lo..hi with r * r <= n, by bisection.
RECURSIVE ISqrtBetween(_, _, _)
ISqrtBetween(n, lo, hi) ==
  IF lo >= hi THEN lo
  ELSE LET mid == (lo + hi + 1) \div 2
       IN IF mid * mid <= n
          THEN ISqrtBetween(n, mid, hi)
          ELSE ISqrtBetween(n, lo, mid - 1)

SqrtCeiling == 46340

\* floor(sqrt(n))
ISqrt(n) == ISqrtBetween(n, 0, Min(n, SqrtCeiling))

(***************************************************************************)
(* Strings: str.lower() on the names the model uses.                       *)
(***************************************************************************)
Lower(s) ==
  CASE s = "A" -> "a"
    [] s = "B" -> "b"
    [] s = "X" -> "x"
    [] s = "Rock" -> "rock"
    [] s = "Calm" -> "calm"
    [] s = "Unknown" -> "unknown"
    [] OTHER -> s

Genres == {"rock", "pop"}

LowerAll(seq) == [i \in 1..Len(seq) |-> Lower(seq[i])]

Song(t, as, g) == [title |-> t, artists |-> as, genre |-> g]

(***************************************************************************)
(* EmbeddingService.                                                       *)
(***************************************************************************)
EmbeddingDim == 2

\* The sentence-transformers model: a deterministic map from the text
\* "<title> by <artists> (<genre>)" to a unit vector (here of length 65 in
\* EmbeddingDim dimensions).  The text is case sensitive, so "a" and "A"
\* encode differently, and it names the artists and genres in the order
\* given, so "a by x, y" and "a by y, x" encode differently; surrounding
\* white space is dropped by the tokenizer.
ModelEncode(title, artists, genre) ==
  CASE artists = <<"y", "x">> -> <<33, 56>>
    [] genre = <<"rock", "pop">> -> <<25, 60>>
    [] title = "a" \/ title = "a " -> <<65, 0>>
    [] title = "A" -> <<63, 16>>
    [] title = "b" -> <<60, 25>>
    [] title = "d" -> <<56, 33>>
    [] title = "B" -> <<52, 39>>
    [] OTHER -> <<-39, 52>>

\* embed_song / embed_songs_batch on a miss: the encoded text of the song.
EmbedSong(song) == ModelEncode(song.title, song.artists, song.genre)

Dot(v1, v2) == v1[1] * v2[1] + v1[2] * v2[2]

NormSq(v) == Dot(v, v)

\* cosine_similarity: dot(v1, v2) / (|v1| * |v2|), in thousandths.
CosineSimilarity(v1, v2) ==
  Quot(Dot(v1, v2) * SimScale, ISqrt(NormSq(v1) * NormSq(v2)))

RECURSIVE SumVectors(_)
SumVectors(vs) ==
  IF vs = <<>> THEN <<0, 0>>
  ELSE LET r == SumVectors(Tail(vs))
       IN <<Head(vs)[1] + r[1], Head(vs)[2] + r[2]>>

\* np.mean(embeddings, axis=0)
MeanVector(vs) ==
  LET s == SumVectors(vs)
  IN <<Quot(s[1], Len(vs)), Quot(s[2], Len(vs))>>

\* embed_songs_batch: one embedding per song, in order.
EmbedSongsBatch(songs) == [i \in 1..Len(songs) |-> EmbedSong(songs[i])]

(***************************************************************************)
(* Identity keys.                                                          *)
(***************************************************************************)
\* "|".join(parts)
RECURSIVE JoinBar(_)
JoinBar(parts) ==
  IF parts = <<>> THEN <<>>
  ELSE IF Len(parts) = 1 THEN <<parts[1]>>
  ELSE <<parts[1], "|">> \o JoinBar(Tail(parts))

NonEmptyToken(t) == t # ""

\* A joined string, as the sequence of its non-empty pieces: joining the
\* empty list and joining [""] both give the empty string.
JoinedString(parts) == SelectSeq(JoinBar(parts), NonEmptyToken)

\* (title.lower(), "|".join(a.lower() for a in artists)): the key the
\* profile merge uses (artists in the order given).
SongKey(song) == <<Lower(song.title), JoinedString(LowerAll(song.artists))>>

\* (title.lower(), artists[0].lower() if artists else ''): the key of the
\* candidate filter, the scorer and the feedback table.
TitleKey(song) ==
  <<Lower(song.title),
    IF song.artists # <<>> THEN Lower(song.artists[1]) ELSE "">>

(***************************************************************************)
(* SongSearchService.search_songs.                                         *)
(***************************************************************************)
\* The remote catalogue (iTunes, then Last.fm) answers a query with the
\* catalogue entries whose title, artist or genre equals the query up to
\* case.  Every entry it returns carries exactly one artist.
Matches(query, song) ==
  \/ Lower(song.title) = Lower(query)
  \/ \E i \in 1..Len(song.artists) : Lower(song.artists[i]) = Lower(query)
  \/ \E i \in 1..Len(song.genre) : Lower(song.genre[i]) = Lower(query)

RECURSIVE FilterMatches(_, _)
FilterMatches(catalog, query) ==
  IF catalog = <<>> THEN <<>>
  ELSE IF Matches(query, Head(catalog))
       THEN <<Head(catalog)>> \o FilterMatches(Tail(catalog), query)
       ELSE FilterMatches(Tail(catalog), query)

\* The de-duplication loop of search_songs: first occurrence of each
\* (title, first artist) key, entries with an empty title dropped.
RECURSIVE UniqueResults(_, _, _)
UniqueResults(results, seen, limit) ==
  IF results = <<>> \/ limit <= 0 THEN <<>>
  ELSE LET song == Head(results)
           key == TitleKey(song)
       IN IF key \notin seen /\ key[1] # ""
          THEN <<song>> \o UniqueResults(Tail(results), seen \cup {key}, limit - 1)
          ELSE UniqueResults(Tail(results), seen, limit)

\* For a query in failq both sources fail: search_songs logs the two
\* errors and returns the empty list.
SearchSongs(catalog, query, limit, failq) ==
  IF query = "" \/ Lower(query) \in failq THEN <<>>
  ELSE Take(UniqueResults(Take(FilterMatches(catalog, query), limit), {}, limit), limit)

(***************************************************************************)
(* RecommendationService.get_recommendations: candidate generation.        *)
(***************************************************************************)
ArtistSeeds == 5
ArtistResults == 15
TitleSeeds == 3
TitleResults == 10
FilterGenres == 3
FilterResults == 20
FallbackGenres == 2
FallbackResults == 10
PoolFactor == 3

NoCap == -1

\* A faulty is_seed test that never recognises a seed song.
IsSeedNever(seeds, song) == "no"

\* The is_seed test: any(...) over the seed songs in order.  Titles are
\* compared first; only on a title match is the first artist compared, a
\* candidate without artists never matches, and a seed without artists
\* raises IndexError when its first artist is read.
RECURSIVE IsSeed(_, _)
IsSeed(seeds, song) ==
  IF seeds = <<>> THEN "no"
  ELSE LET s == Head(seeds)
       IN IF Lower(s.title) = Lower(song.title) /\ song.artists # <<>>
          THEN IF s.artists = <<>> THEN "raise"
               ELSE IF Lower(s.artists[1]) = Lower(song.artists[1]) THEN "yes"
               ELSE IsSeed(Tail(seeds), song)
          ELSE IsSeed(Tail(seeds), song)

\* The loop "for song in results" of one query.  acc is the pair of
\* all_candidates and seen_titles; cap is the pool cap of the genre
\* strategies (NoCap for the artist and title strategies).  An exception
\* leaves the loop with what was collected so far.
RECURSIVE AddResults(_, _, _, _)
AddResults(results, acc, seeds, cap) ==
  IF results = <<>> THEN acc
  ELSE LET song == Head(results)
           key == TitleKey(song)
       IN IF key \notin acc.seen /\ (cap = NoCap \/ Len(acc.cands) < cap)
          THEN LET r == IsSeed(seeds, song)
               IN IF r = "raise" THEN acc
                  ELSE IF r = "no"
                       THEN AddResults(Tail(results),
                                       [cands |-> Append(acc.cands, song),
                                        seen |-> acc.seen \cup {key}],
                                       seeds, cap)
                       ELSE AddResults(Tail(results), acc, seeds, cap)
          ELSE AddResults(Tail(results), acc, seeds, cap)

\* A faulty strategy that gives up at its first failing query.
RECURSIVE RunQueriesAbort(_, _, _, _, _, _, _)
RunQueriesAbort(catalog, queries, qlimit, acc, seeds, cap, failq) ==
  IF queries = <<>> \/ Lower(Head(queries)) \in failq THEN acc
  ELSE RunQueriesAbort(catalog, Tail(queries), qlimit,
                       AddResults(SearchSongs(catalog, Head(queries), qlimit, failq),
                                  acc, seeds, cap),
                       seeds, cap, failq)

\* One strategy: its queries in order, each with the same result limit.
RECURSIVE RunQueries(_, _, _, _, _, _, _)
RunQueries(catalog, queries, qlimit, acc, seeds, cap, failq) ==
  IF queries = <<>> THEN acc
  ELSE RunQueries(catalog, Tail(queries), qlimit,
                  AddResults(SearchSongs(catalog, Head(queries), qlimit, failq),
                             acc, seeds, cap),
                  seeds, cap, failq)

HasArtists(song) == song.artists # <<>>

\* Strategy 1: the first artist of each of the first 5 seed songs that has one.
ArtistQueries(seeds) ==
  LET withArtists == SelectSeq(Take(seeds, ArtistSeeds), HasArtists)
  IN [i \in 1..Len(withArtists) |-> withArtists[i].artists[1]]

\* Strategy 2: the title of each of the first 3 seed songs.
TitleQueries(seeds) ==
  LET firstSeeds == Take(seeds, TitleSeeds)
  IN [i \in 1..Len(firstSeeds) |-> firstSeeds[i].title]

\* Strategy 4: the set of the provided genres and the seed songs' genres.
FallbackGenreSet(seeds, genre) ==
  Range(genre) \cup UNION {Range(seeds[i].genre) : i \in 1..Len(seeds)}

\* list(genres): the orders in which a Python set may be iterated.
Orderings(S) ==
  {q \in [1..Cardinality(S) -> S] : \A i, j \in DOMAIN q : i # j => q[i] # q[j]}

\* all_candidates after the four strategies.  gorder is the iteration order
\* of the fallback genre set.
GenerateCandidates(catalog, seeds, limit, genre, gorder, failq) ==
  LET a0 == [cands |-> <<>>, seen |-> {}]
      a1 == RunQueries(catalog, ArtistQueries(seeds), ArtistResults, a0, seeds,
                       NoCap, failq)
      a2 == RunQueries(catalog, TitleQueries(seeds), TitleResults, a1, seeds,
                       NoCap, failq)
      a3 == IF Len(genre) > 0
            THEN RunQueries(catalog, Take(genre, FilterGenres), FilterResults,
                            a2, seeds, limit * PoolFactor, failq)
            ELSE a2
      a4 == IF Len(a3.cands) < limit
            THEN RunQueries(catalog, Take(gorder, FallbackGenres), FallbackResults,
                            a3, seeds, limit * PoolFactor, failq)
            ELSE a3
  IN a4.cands

(***************************************************************************)
(* RecommendationService._get_feedback_scores.                             *)
(***************************************************************************)
LikeScore == 500
SkipScore == 500
RepeatScore == 300
LongPlaySeconds == 60
ShortPlaySeconds == 10

\* feedback_scores.get(key, 0.0)
GetScore(fs, key) == IF key \in DOMAIN fs THEN fs[key] ELSE 0

\* feedback_scores[key] = feedback_scores.get(key, 0.0) + delta
AddScore(fs, key, delta) ==
  [k \in DOMAIN fs \cup {key} |->
     IF k = key THEN GetScore(fs, key) + delta ELSE fs[k]]

HistoryKey(entry) ==
  <<Lower(entry.song_title),
    IF entry.artists # <<>> THEN Lower(entry.artists[1]) ELSE "">>

\* The body of "for entry in history" for one entry.  duration_seconds is a
\* nullable column: comparing None with a number raises TypeError, after
\* the updates made before the comparison.
FeedbackEntry(fs, entry) ==
  LET key == HistoryKey(entry)
      dur == entry.duration_seconds
      liked == IF entry.completed \/ (dur # NoDuration /\ dur > LongPlaySeconds)
               THEN AddScore(fs, key, LikeScore) ELSE fs
      skipped == IF dur # NoDuration /\ dur > 0 /\ dur < ShortPlaySeconds
                 THEN AddScore(liked, key, -SkipScore) ELSE liked
      repeated == IF entry.play_count > 1
                  THEN AddScore(skipped, key, RepeatScore * (entry.play_count - 1))
                  ELSE skipped
  IN IF dur = NoDuration
     THEN [fs |-> liked, raised |-> TRUE]
     ELSE [fs |-> repeated, raised |-> FALSE]

RECURSIVE AccumulateFeedback(_, _)
AccumulateFeedback(history, fs) ==
  IF history = <<>> THEN [fs |-> fs, raised |-> FALSE]
  ELSE LET r == FeedbackEntry(fs, Head(history))
       IN IF r.raised THEN r ELSE AccumulateFeedback(Tail(history), r.fs)

MaxAbs(fs) ==
  IF DOMAIN fs = {} THEN 0
  ELSE CHOOSE m \in {Abs(fs[k]) : k \in DOMAIN fs} :
         \A k \in DOMAIN fs : Abs(fs[k]) <= m

\* "Normalize scores to [-1, 1] range": skipped for an empty table and for
\* a table whose largest absolute value is 0.
NormalizeFeedback(fs) ==
  IF DOMAIN fs # {} /\ MaxAbs(fs) > 0
  THEN [k \in DOMAIN fs |-> Quot(fs[k] * SimScale, MaxAbs(fs))]
  ELSE fs

\* The table handed to the scorer.  An exception inside the try block skips
\* the normalization and returns the dictionary as accumulated so far.
GetFeedbackScores(history) ==
  LET r == AccumulateFeedback(history, <<>>)
  IN IF r.raised THEN r.fs ELSE NormalizeFeedback(r.fs)

(***************************************************************************)
(* RecommendationService.get_recommendations: scoring.                     *)
(***************************************************************************)
SimilarityWeight == 9
GenreWeight == 1000
LikeBoost == 15
SkipPenalty == 20
FeedbackUnit == 100000

\* genre_match: some provided genre occurs in the candidate's genre text
\* (on the model's genre names a substring is an equal name).
GenreMatch(candidate, genre) ==
  IF Len(genre) > 0 /\ Len(candidate.genre) > 0
       /\ \E i \in 1..Len(genre), j \in 1..Len(candidate.genre) :
             Lower(genre[i]) = Lower(candidate.genre[j])
  THEN 1 ELSE 0

\* mood_features: the keywords that speak for and against each mood.
MoodFeatures ==
  [energetic |->
     [positive |-> {"fast", "upbeat", "energetic", "intense", "pump", "workout",
                    "dance", "party"},
      negative |-> {"slow", "calm", "soft", "gentle", "relaxing"}],
   calm |->
     [positive |-> {"calm", "peaceful", "relaxing", "soft", "gentle", "ambient",
                    "zen"},
      negative |-> {"intense", "aggressive", "energetic", "fast", "loud"}],
   sad |->
     [positive |-> {"sad", "emotional", "melancholic", "slow", "ballad",
                    "introspective"},
      negative |-> {"happy", "upbeat", "energetic", "party"}],
   happy |->
     [positive |-> {"happy", "upbeat", "cheerful", "joyful", "positive", "bright"},
      negative |-> {"sad", "melancholic", "dark", "depressing"}]]

\* The words of "<title> <first artist> <genres>", lower-cased (on the
\* model's names a keyword occurs in the text iff it is one of its words).
SongWords(candidate) ==
  {Lower(candidate.title)}
    \cup (IF candidate.artists # <<>> THEN {Lower(candidate.artists[1])} ELSE {""})
    \cup Range(LowerAll(candidate.genre))

BoostCap == 5

\* _compute_audio_feature_boost, in tenths: 0 without a mood or for an
\* unknown mood, else +0.1 per positive and -0.1 per negative keyword in
\* the text, kept within [-0.5, 0.5].
ComputeAudioFeatureBoost(candidate, mood) ==
  IF mood = None \/ mood = "" \/ Lower(mood) \notin DOMAIN MoodFeatures THEN 0
  ELSE LET features == MoodFeatures[Lower(mood)]
           boost == Cardinality(features.positive \cap SongWords(candidate))
                      - Cardinality(features.negative \cap SongWords(candidate))
       IN Max(-BoostCap, Min(BoostCap, boost))

\* A faulty scorer that hands a mood to the boost.
ScorerMoodCalm == "calm"

\* Line 239: the scorer passes None as the mood, whatever the context.
ScorerMood == None

BoostUnit == 100

\* final_score * (1.0 + audio_boost * 0.1)
ApplyBoost(score, boost) == Quot(score * (BoostUnit + boost), BoostUnit)

AudioBoost(candidate) == ComputeAudioFeatureBoost(candidate, ScorerMood)

\* final_score *= (1 + feedback * 0.15) for a positive feedback score,
\* final_score *= (1 + feedback * 0.2) for a negative one.
ApplyFeedback(score, fb) ==
  IF fb > 0 THEN Quot(score * (FeedbackUnit + LikeBoost * fb), FeedbackUnit)
  ELSE IF fb < 0 THEN Quot(score * (FeedbackUnit + SkipPenalty * fb), FeedbackUnit)
  ELSE score

\* "Cap final score at 1.0": min(float(final_score), 1.0)
CapScore(score) == Min(score, ScoreScale)

\* The score of one candidate, in ten-thousandths.
FinalScore(taste_vector, candidate, genre, feedback_scores) ==
  LET similarity == CosineSimilarity(taste_vector, EmbedSong(candidate))
      base == SimilarityWeight * similarity + GenreWeight * GenreMatch(candidate, genre)
      boosted == ApplyBoost(base, AudioBoost(candidate))
  IN CapScore(ApplyFeedback(boosted, GetScore(feedback_scores, TitleKey(candidate))))

\* A faulty scoring loop that ends at the first candidate that raises.
RECURSIVE ScoreCandidatesAbort(_, _, _, _, _)
ScoreCandidatesAbort(cands, taste_vector, genre, feedback_scores, failing) ==
  IF cands = <<>> THEN <<>>
  ELSE LET c == Head(cands)
       IN IF TitleKey(c) \in failing THEN <<>>
          ELSE <<[song |-> c,
                  similarity_score |->
                    FinalScore(taste_vector, c, genre, feedback_scores)]>>
               \o ScoreCandidatesAbort(Tail(cands), taste_vector, genre,
                                       feedback_scores, failing)

\* The scoring loop: a candidate whose scoring raises (its key is in
\* failing) is skipped, the others are appended in order.
RECURSIVE ScoreCandidates(_, _, _, _, _)
ScoreCandidates(cands, taste_vector, genre, feedback_scores, failing) ==
  IF cands = <<>> THEN <<>>
  ELSE LET c == Head(cands)
           rest == ScoreCandidates(Tail(cands), taste_vector, genre,
                                   feedback_scores, failing)
       IN IF TitleKey(c) \in failing THEN rest
          ELSE <<[song |-> c,
                  similarity_score |->
                    FinalScore(taste_vector, c, genre, feedback_scores)]>> \o rest

\* list.sort(key=similarity_score, reverse=True): stable, highest first.
RECURSIVE InsertByScore(_, _)
InsertByScore(sorted, x) ==
  IF sorted = <<>> THEN <<x>>
  ELSE IF Head(sorted).similarity_score >= x.similarity_score
       THEN <<Head(sorted)>> \o InsertByScore(Tail(sorted), x)
       ELSE <<x>> \o sorted

RECURSIVE SortByScore(_)
SortByScore(s) ==
  IF s = <<>> THEN <<>>
  ELSE InsertByScore(SortByScore(SubSeq(s, 1, Len(s) - 1)), s[Len(s)])

(***************************************************************************)
(* RecommendationService._apply_diversity_constraints.                     *)
(***************************************************************************)
\* A faulty cap that lets a third song of an artist through.
MaxPerArtistLoose == 2 + 1

MaxPerArtist == 2
ConsecutivePenalty == 85
ClusterPenalty == 95
PenaltyUnit == 100
ClusterRepeatAfter == 3
ClusterReset == 10

\* artists[0] if artists else 'Unknown'
FirstArtist(song) == IF song.artists # <<>> THEN song.artists[1] ELSE "Unknown"

\* sorted() of lower-cased genre names: "ambient", then "pop", then "rock".
GenreRank(g) == IF g = "ambient" THEN 0 ELSE IF g = "pop" THEN 1 ELSE 2

RECURSIVE InsertGenre(_, _)
InsertGenre(sorted, g) ==
  IF sorted = <<>> THEN <<g>>
  ELSE IF GenreRank(Head(sorted)) <= GenreRank(g)
       THEN <<Head(sorted)>> \o InsertGenre(Tail(sorted), g)
       ELSE <<g>> \o sorted

RECURSIVE SortGenres(_)
SortGenres(gs) ==
  IF gs = <<>> THEN <<>> ELSE InsertGenre(SortGenres(Tail(gs)), Head(gs))

\* '|'.join(sorted(g.lower() for g in genre))
GenreKey(song) == JoinedString(SortGenres(LowerAll(song.genre)))

ArtistCount(counts, key) == IF key \in DOMAIN counts THEN counts[key] ELSE 0

\* A faulty test that penalises a repeated signature at any size of the set.
ClusteredAnySize(clusters, genre_key) == genre_key \in clusters

\* genre_key in seen_energy_clusters and len(seen_energy_clusters) > 3
Clustered(clusters, genre_key) ==
  genre_key \in clusters /\ Cardinality(clusters) > ClusterRepeatAfter

\* One iteration of "for candidate in candidates".  st holds diverse_list,
\* artist_counts, last_artist and seen_energy_clusters.
DiversityStep(st, candidate, limit) ==
  LET artist == FirstArtist(candidate.song)
      artist_key == Lower(artist)
      consecutive == st.last # None /\ st.last # "" /\ Lower(st.last) = artist_key
      genre_key == GenreKey(candidate.song)
      clustered == Clustered(st.clusters, genre_key)
      s1 == IF consecutive
            THEN Quot(candidate.similarity_score * ConsecutivePenalty, PenaltyUnit)
            ELSE candidate.similarity_score
      s2 == IF clustered THEN Quot(s1 * ClusterPenalty, PenaltyUnit) ELSE s1
      clusters == st.clusters \cup {genre_key}
  IN IF Len(st.list) >= limit THEN [st EXCEPT !.stopped = TRUE]
     ELSE IF ArtistCount(st.counts, artist_key) >= MaxPerArtist THEN st
     ELSE [list |-> Append(st.list, [candidate EXCEPT !.similarity_score = s2]),
           counts |-> [k \in DOMAIN st.counts \cup {artist_key} |->
                         IF k = artist_key
                         THEN ArtistCount(st.counts, artist_key) + 1
                         ELSE st.counts[k]],
           last |-> artist,
           clusters |-> IF Cardinality(clusters) > ClusterReset THEN {} ELSE clusters,
           stopped |-> FALSE]

RECURSIVE DiversityLoop(_, _, _)
DiversityLoop(st, candidates, limit) ==
  IF candidates = <<>> \/ st.stopped THEN st
  ELSE DiversityLoop(DiversityStep(st, Head(candidates), limit),
                     Tail(candidates), limit)

\* diverse_list at the end of the loop, in the order of acceptance.
AcceptedList(candidates, limit) ==
  IF candidates = <<>> THEN <<>>
  ELSE DiversityLoop([list |-> <<>>, counts |-> <<>>, last |-> None,
                      clusters |-> {}, stopped |-> FALSE],
                     candidates, limit).list

\* A faulty pass that leaves out the final re-sort.
ApplyDiversityConstraintsUnsorted(candidates, limit) ==
  IF candidates = <<>> THEN <<>>
  ELSE DiversityLoop([list |-> <<>>, counts |-> <<>>, last |-> None,
                      clusters |-> {}, stopped |-> FALSE],
                     candidates, limit).list

\* The greedy pass, then "Re-sort by score after applying penalties".
ApplyDiversityConstraints(candidates, limit) ==
  IF candidates = <<>> THEN <<>>
  ELSE SortByScore(DiversityLoop([list |-> <<>>, counts |-> <<>>, last |-> None,
                                  clusters |-> {}, stopped |-> FALSE],
                                 candidates, limit).list)

(***************************************************************************)
(* RecommendationService.get_recommendations: the whole pipeline.          *)
(***************************************************************************)
\* A faulty slice that is one record too long.
ReturnedSliceLong(diverse, limit) == Take(diverse, limit + 1)

\* diverse_candidates[:limit]
ReturnedSlice(diverse, limit) == Take(diverse, limit)

\* The records of the returned list: the song and its score.
FormatRecommendations(diverse) ==
  [i \in 1..Len(diverse) |->
     [song |-> diverse[i].song, score |-> diverse[i].similarity_score]]

\* The values get_recommendations computes from a loaded profile: the
\* candidate pool, the feedback table, the sorted scored candidates and the
\* returned list.  An empty seed list returns [] before any retrieval.
RecommendationRun(profile, limit, genre, catalog, gorder, history, failing, failq) ==
  LET pool == GenerateCandidates(catalog, profile.seed_songs, limit, genre, gorder,
                                 failq)
      feedback == GetFeedbackScores(history)
      scored == SortByScore(ScoreCandidates(pool, profile.taste_vector, genre,
                                            feedback, failing))
      diverse == ApplyDiversityConstraints(scored, limit * 2)
  IN IF profile.seed_songs = <<>>
     THEN [pool |-> <<>>, feedback |-> <<>>, scored |-> <<>>, recs |-> <<>>]
     ELSE [pool |-> pool, feedback |-> feedback, scored |-> scored,
           recs |-> FormatRecommendations(ReturnedSlice(diverse, limit))]

(***************************************************************************)
(* EmbeddingService: the embedding cache.                                  *)
(***************************************************************************)
\* str.strip() on the names the model uses.
Strip(s) == IF s = "a " THEN "a" ELSE s

\* sorted() of lower-cased, stripped artist names.
NameRank(a) ==
  CASE a = "" -> 0
    [] a = "unknown" -> 1
    [] a = "x" -> 2
    [] OTHER -> 3

RECURSIVE InsertName(_, _)
InsertName(sorted, a) ==
  IF sorted = <<>> THEN <<a>>
  ELSE IF NameRank(Head(sorted)) <= NameRank(a)
       THEN <<Head(sorted)>> \o InsertName(Tail(sorted), a)
       ELSE <<a>> \o sorted

RECURSIVE SortNames(_)
SortNames(as) ==
  IF as = <<>> THEN <<>> ELSE InsertName(SortNames(Tail(as)), Head(as))

NormAll(seq) == [i \in 1..Len(seq) |-> Strip(Lower(seq[i]))]

\* _generate_embedding_id: the hashed content, i.e. the stripped lower-case
\* title, the sorted artists and the sorted genres.
EmbeddingId(song) ==
  <<Strip(Lower(song.title)),
    JoinedString(SortNames(NormAll(song.artists))),
    JoinedString(SortGenres(NormAll(song.genre)))>>

\* self._embedding_cache = {}
EmptyCache == <<>>

\* self._embedding_cache[embedding_id] = embedding
CachePut(cache, id, embedding) ==
  [k \in DOMAIN cache \cup {id} |-> IF k = id THEN embedding ELSE cache[k]]

\* embed_song: the cached vector of the song's id when there is one, else
\* the encoded text, which is then cached.
EmbedSongCached(cache, song, use_cache) ==
  LET id == EmbeddingId(song)
  IN IF use_cache /\ id \in DOMAIN cache
     THEN [vector |-> cache[id], cache |-> cache]
     ELSE [vector |-> EmbedSong(song),
           cache |-> IF use_cache THEN CachePut(cache, id, EmbedSong(song))
                     ELSE cache]

\* The cache after "for idx, (song, embedding) in enumerate(zip(...))".
RECURSIVE CacheAll(_, _)
CacheAll(cache, songs) ==
  IF songs = <<>> THEN cache
  ELSE CacheAll(CachePut(cache, EmbeddingId(Head(songs)), EmbedSong(Head(songs))),
                Tail(songs))

\* embed_songs_batch: the songs whose id is not in the cache at the start of
\* the call are encoded, each from its own text, and cached in list order.
EmbedSongsBatchCached(cache, songs, use_cache) ==
  LET Uncached(song) == ~(use_cache /\ EmbeddingId(song) \in DOMAIN cache)
  IN [vectors |-> [i \in 1..Len(songs) |->
                     IF Uncached(songs[i]) THEN EmbedSong(songs[i])
                     ELSE cache[EmbeddingId(songs[i])]],
      cache |-> IF use_cache THEN CacheAll(cache, SelectSeq(songs, Uncached))
                ELSE cache]

(***************************************************************************)
(* TasteProfileService / RecommendationService: building profiles.         *)
(***************************************************************************)
\* The profile analyze_taste and _create_profile_from_songs build.
NewProfile(songs) ==
  [seed_songs |-> songs,
   taste_vector |-> MeanVector(EmbedSongsBatch(songs)),
   song_count |-> Len(songs)]

\* A faulty blend with the two weights exchanged.
BlendVectorsSwapped(existing, new_avg, weight) ==
  IF Len(existing) > 0 /\ Len(existing) = Len(new_avg)
  THEN [i \in 1..Len(existing) |->
          Quot(weight * existing[i] + (WeightScale - weight) * new_avg[i],
               WeightScale)]
  ELSE new_avg

\* (1 - weight) * existing + weight * new, weight in tenths; the new mean
\* alone when the existing vector is empty or of another dimension.
BlendVectors(existing, new_avg, weight) ==
  IF Len(existing) > 0 /\ Len(existing) = Len(new_avg)
  THEN [i \in 1..Len(existing) |->
          Quot((WeightScale - weight) * existing[i] + weight * new_avg[i],
               WeightScale)]
  ELSE new_avg

\* A faulty merge that appends every new song.
MergeSeedSongsAll(merged, seen, new_songs) == merged \o new_songs

\* "Merge seed songs (avoid duplicates)": a new song is appended unless its
\* key is already among the seen keys.
RECURSIVE MergeSeedSongs(_, _, _)
MergeSeedSongs(merged, seen, new_songs) ==
  IF new_songs = <<>> THEN merged
  ELSE LET song == Head(new_songs)
       IN IF SongKey(song) \notin seen
          THEN MergeSeedSongs(Append(merged, song), seen \cup {SongKey(song)},
                              Tail(new_songs))
          ELSE MergeSeedSongs(merged, seen, Tail(new_songs))

\* The profile update_profile_with_new_songs writes for a non-empty list.
UpdatedProfile(profile, new_songs, weight) ==
  LET merged == MergeSeedSongs(profile.seed_songs,
                               {SongKey(profile.seed_songs[i]) :
                                  i \in 1..Len(profile.seed_songs)},
                               new_songs)
  IN [seed_songs |-> merged,
      taste_vector |-> BlendVectors(profile.taste_vector,
                                    MeanVector(EmbedSongsBatch(new_songs)), weight),
      song_count |-> Len(merged)]

\* profile_data.get("version"): neither analyze_taste nor the update writes
\* a version into profile_data, and the table has no version column.
NoVersion == -1

ProfileVersion(profile_data) ==
  IF "version" \in DOMAIN profile_data THEN profile_data.version ELSE NoVersion

\* A faulty early return that hands back None.
EmptyUpdateResultNone(profile_data) == NoProfile

\* "if not new_embeddings: return profile_data": an update with no songs
\* returns the stored profile without writing.
EmptyUpdateResult(profile_data) == profile_data

(***************************************************************************)
(* State.                                                                  *)
(*   store            the taste_profiles table: profile_data per user      *)
(*   user_profiles    RecommendationService.user_profiles of each process  *)
(*   analysis_status  the analysis_status dictionary of each process       *)
(*   calls            the service call each request slot is executing      *)
(*   added            keys of the songs that committed updates added to a  *)
(*                    user's profile since the row was last written whole  *)
(*   nops             number of calls started (bounded by MaxOps)          *)
(*   ret              what the last completed request returned             *)
(*   embedding_cache  EmbeddingService._embedding_cache of one process     *)
(*                    (the instance of the recommendation service);        *)
(*   profile_embedding_cache  the same map of the instance the             *)
(*                    taste-profile service holds;                         *)
(*   cache_file       the content of embeddings.pkl;                       *)
(*                    the profile and recommendation requests run on a     *)
(*                    cache that holds none of their songs                 *)
(***************************************************************************)
Slots == {1, 2}

\* The process (server instance) a request slot belongs to.  Endpoints are
\* async functions that run to completion on their process's event loop, so
\* two profile updates overlap only across processes.
SlotProc(c) == c

SongA == Song("a", <<"x">>, <<"rock">>)
SongA2 == Song("A", <<"X">>, <<"rock">>)
SongB == Song("b", <<"y">>, <<"pop">>)
SongC == Song("c", <<"y">>, <<>>)

\* The song lists of analyze_taste and update_profile_with_songs requests:
\* SongA and SongA2 have the same identity key.
AnalyzeLists == {<<>>, <<SongA>>, <<SongA, SongA2>>}

\* ... an update may name the same song twice.
UpdateLists == {<<>>, <<SongB>>, <<SongC, SongC>>}

Weights == {0, 3, 10}

NoStatus == [status |-> "not_started", recommendations |-> <<>>]

IdleCall ==
  [pc |-> "idle", op |-> "none", user |-> None, songs |-> <<>>, weight |-> 0,
   bg |-> FALSE, existed |-> FALSE, saved |-> FALSE, loaded |-> NoProfile,
   pending |-> NoProfile, result |-> NoProfile]

NoRet == [op |-> "none"]

\* The table outlives the processes: it is empty or holds a profile saved by
\* an earlier run.  A process has an empty user_profiles dictionary after
\* its start, or has already read the user's row into it.
StoredProfiles == {NoProfile, NewProfile(<<SongA>>)}

Init ==
  /\ store \in [Users -> StoredProfiles]
  /\ user_profiles \in [Procs -> [Users -> StoredProfiles]]
  /\ \A p \in Procs, u \in Users : user_profiles[p][u] \in {NoProfile, store[u]}
  /\ analysis_status = [p \in Procs |-> [u \in Users |-> NoStatus]]
  /\ calls = [c \in Slots |-> IdleCall]
  /\ added = [u \in Users |-> {}]
  /\ nops = 0
  /\ ret = NoRet
  /\ embedding_cache = EmptyCache
  /\ profile_embedding_cache = EmptyCache
  /\ cache_file = EmptyCache

Free(c) == calls[c].pc = "idle"

SongKeys(songs) == {SongKey(songs[i]) : i \in 1..Len(songs)}

(***************************************************************************)
(* update_profile_with_songs -> update_profile_with_new_songs.             *)
(***************************************************************************)
\* Lines 112-174: the row is read in the call's own session, the new songs
\* are embedded and the new profile is computed.  embed_ok = FALSE: the
\* embedding model raises.
StartUpdate(c, u, songs, weight, embed_ok) ==
  /\ Free(c)
  /\ nops < MaxOps
  /\ nops' = nops + 1
  /\ LET base == [IdleCall EXCEPT !.op = "update", !.user = u, !.songs = songs,
                                  !.weight = weight]
     IN calls' = [calls EXCEPT ![c] =
          IF store[u] = NoProfile
          THEN \* _create_profile_from_songs
               IF songs = <<>> \/ ~embed_ok
               THEN [base EXCEPT !.pc = "upd_return"]
               ELSE [base EXCEPT !.pc = "create_save", !.pending = NewProfile(songs)]
          ELSE IF songs = <<>>
               THEN [base EXCEPT !.pc = "upd_return", !.existed = TRUE,
                                 !.loaded = store[u],
                                 !.result = EmptyUpdateResult(store[u])]
               ELSE IF ~embed_ok
                    THEN [base EXCEPT !.pc = "upd_return", !.existed = TRUE,
                                      !.loaded = store[u]]
                    ELSE [base EXCEPT !.pc = "upd_commit", !.existed = TRUE,
                                      !.loaded = store[u],
                                      !.pending = UpdatedProfile(store[u], songs, weight)]]
  /\ UNCHANGED <<store, user_profiles, analysis_status, added, ret,
               embedding_cache,
               profile_embedding_cache, cache_file>>

\* Lines 176-189: the new profile_data is written over the row and
\* committed; a failed commit rolls back and the call returns None.
UpdateCommit(c, ok) ==
  /\ calls[c].pc = "upd_commit"
  /\ LET u == calls[c].user
     IN IF ok
        THEN /\ store' = [store EXCEPT ![u] = calls[c].pending]
             /\ added' = [added EXCEPT ![u] = @ \cup SongKeys(calls[c].songs)]
             /\ calls' = [calls EXCEPT ![c].pc = "upd_return",
                                       ![c].saved = TRUE,
                                       ![c].result = calls[c].pending]
        ELSE /\ calls' = [calls EXCEPT ![c].pc = "upd_return"]
             /\ UNCHANGED <<store, added>>
  /\ UNCHANGED <<user_profiles, analysis_status, nops, ret, embedding_cache,
               profile_embedding_cache, cache_file>>

\* A faulty save whose failed commit leaves the user without a row.
SaveProfileDropping(u, profile_data, ok) ==
  /\ store' = [store EXCEPT ![u] = IF ok THEN profile_data ELSE NoProfile]
  /\ added' = [added EXCEPT ![u] = {}]

\* save_profile, lines 36-67: the row is inserted or overwritten with the
\* whole profile; a failed commit is rolled back and reported as False.
SaveProfile(u, profile_data, ok) ==
  IF ok
  THEN /\ store' = [store EXCEPT ![u] = profile_data]
       /\ added' = [added EXCEPT ![u] = {}]
  ELSE UNCHANGED <<store, added>>

\* Lines 215-218: save_profile's result is not looked at; the new profile
\* is returned whether or not it was saved.
CreateSave(c, ok) ==
  /\ calls[c].pc = "create_save"
  /\ SaveProfile(calls[c].user, calls[c].pending, ok)
  /\ calls' = [calls EXCEPT ![c].pc = "upd_return", ![c].saved = ok,
                            ![c].result = calls[c].pending]
  /\ UNCHANGED <<user_profiles, analysis_status, nops, ret, embedding_cache,
               profile_embedding_cache, cache_file>>

\* recommendation_service lines 351-356: a profile that came back replaces
\* the cache entry of the process, and the call returns it.
UpdateReturn(c) ==
  /\ calls[c].pc = "upd_return"
  /\ calls' = [calls EXCEPT ![c] = IdleCall]
  /\ user_profiles' =
       IF calls[c].result # NoProfile
       THEN [user_profiles EXCEPT ![SlotProc(c)][calls[c].user] = calls[c].result]
       ELSE user_profiles
  /\ ret' = [op |-> "update_profile_with_songs", proc |-> SlotProc(c),
             user |-> calls[c].user, songs |-> calls[c].songs,
             weight |-> calls[c].weight, existed |-> calls[c].existed,
             saved |-> calls[c].saved, loaded |-> calls[c].loaded,
             result |-> calls[c].result]
  /\ UNCHANGED <<store, analysis_status, added, nops, embedding_cache,
               profile_embedding_cache, cache_file>>

(***************************************************************************)
(* analyze_taste, and run_analysis_background around it.                   *)
(***************************************************************************)
\* A faulty outcome for an empty list: reported as a complete analysis.
ErrorResultComplete == [status |-> "complete", message |-> "No seed songs provided"]

\* Lines 37-42: the dictionary returned for an empty seed list.
ErrorResult == [status |-> "error", message |-> "No seed songs provided"]

Raised == [raised |-> TRUE]

AnalyzeRet(c, result, saved) ==
  [op |-> "analyze_taste", proc |-> SlotProc(c), user |-> calls[c].user,
   songs |-> calls[c].songs, saved |-> saved, result |-> result]

\* recommendation_service lines 37-60.  With bg the call is the one
\* run_analysis_background makes, which first records "processing".  An
\* empty list returns the error dictionary, a failing embedding model
\* raises; both end analyze_taste at once.
StartAnalyze(c, u, seeds, bg, embed_ok) ==
  /\ Free(c)
  /\ nops < MaxOps
  /\ nops' = nops + 1
  /\ LET base == [IdleCall EXCEPT !.op = "analyze", !.user = u, !.songs = seeds,
                                  !.bg = bg]
         result == IF seeds = <<>> THEN ErrorResult ELSE Raised
     IN IF seeds = <<>> \/ ~embed_ok
        THEN /\ calls' = [calls EXCEPT ![c] =
                  IF bg THEN [base EXCEPT !.pc = "bg_finish", !.result = result]
                  ELSE IdleCall]
             /\ ret' = [op |-> "analyze_taste", proc |-> SlotProc(c), user |-> u,
                        songs |-> seeds, saved |-> FALSE, result |-> result]
        ELSE /\ calls' = [calls EXCEPT ![c] =
                  [base EXCEPT !.pc = "an_save", !.pending = NewProfile(seeds)]]
             /\ UNCHANGED ret
  /\ analysis_status' =
       IF bg
       THEN [analysis_status EXCEPT ![SlotProc(c)][u] =
               [status |-> "processing", recommendations |-> <<>>]]
       ELSE analysis_status
  /\ UNCHANGED <<store, user_profiles, added, embedding_cache,
               profile_embedding_cache, cache_file>>

\* Line 63: save_profile writes the row and returns False when the commit
\* fails; analyze_taste does not look at the result.
AnalyzeSave(c, ok) ==
  /\ calls[c].pc = "an_save"
  /\ SaveProfile(calls[c].user, calls[c].pending, ok)
  /\ calls' = [calls EXCEPT ![c].pc = "an_cache", ![c].saved = ok]
  /\ UNCHANGED <<user_profiles, analysis_status, nops, ret, embedding_cache,
               profile_embedding_cache, cache_file>>

\* Lines 66-70: the profile is cached and returned.
AnalyzeCache(c) ==
  /\ calls[c].pc = "an_cache"
  /\ user_profiles' =
       [user_profiles EXCEPT ![SlotProc(c)][calls[c].user] = calls[c].pending]
  /\ calls' = [calls EXCEPT ![c] =
       IF calls[c].bg
       THEN [calls[c] EXCEPT !.pc = "bg_finish", !.result = calls[c].pending]
       ELSE IdleCall]
  /\ ret' = AnalyzeRet(c, calls[c].pending, calls[c].saved)
  /\ UNCHANGED <<store, analysis_status, added, nops, embedding_cache,
               profile_embedding_cache, cache_file>>

(***************************************************************************)
(* get_recommendations and get_taste_profile of RecommendationService.     *)
(***************************************************************************)
\* Lines 92-99 and 329-333: the cached profile, else the stored one.
LoadedProfile(p, u) ==
  IF user_profiles[p][u] # NoProfile THEN user_profiles[p][u] ELSE store[u]

\* ... which is put in the cache when it was found in the store.
CacheAfterLoad(p, u) ==
  [user_profiles EXCEPT ![p][u] = LoadedProfile(p, u)]

\* What get_recommendations returns, with the values it computed on the way.
ServiceRecommendations(p, u, limit, genre, catalog, gorder, history, failing, failq) ==
  IF LoadedProfile(p, u) = NoProfile
  THEN [pool |-> <<>>, feedback |-> <<>>, scored |-> <<>>, recs |-> <<>>]
  ELSE RecommendationRun(LoadedProfile(p, u), limit, genre, catalog, gorder,
                         history, failing, failq)

\* The iteration orders of the fallback genre set for a call.
GenreOrders(p, u, genre) ==
  IF LoadedProfile(p, u) = NoProfile THEN {<<>>}
  ELSE Orderings(FallbackGenreSet(LoadedProfile(p, u).seed_songs, genre))

\* No request handler of process p is running on its event loop (background
\* analysis runs in a worker thread and does not block it).
CanServe(p) == \A c \in Slots : SlotProc(c) = p => (Free(c) \/ calls[c].bg)

GetRecommendations(p, u, limit, context, genre, catalog, gorder, history, failing, failq) ==
  /\ CanServe(p)
  /\ nops < MaxOps
  /\ nops' = nops + 1
  /\ gorder \in GenreOrders(p, u, genre)
  /\ user_profiles' = CacheAfterLoad(p, u)
  /\ ret' = [op |-> "get_recommendations", proc |-> p, user |-> u,
             limit |-> limit, context |-> context, genre |-> genre,
             catalog |-> catalog,
             gorder |-> gorder, failing |-> failing, failq |-> failq,
             pending |-> \E c \in Slots : calls[c].op = "analyze" /\ calls[c].user = u,
             persisted |-> store[u] # NoProfile,
             profile |-> LoadedProfile(p, u),
             run |-> ServiceRecommendations(p, u, limit, genre, catalog, gorder,
                                            history, failing, failq)]
  /\ UNCHANGED <<store, analysis_status, calls, added, embedding_cache,
               profile_embedding_cache, cache_file>>

GetTasteProfile(p, u) ==
  /\ CanServe(p)
  /\ nops < MaxOps
  /\ nops' = nops + 1
  /\ user_profiles' = CacheAfterLoad(p, u)
  /\ ret' = [op |-> "get_taste_profile", proc |-> p, user |-> u,
             profile |-> LoadedProfile(p, u)]
  /\ UNCHANGED <<store, analysis_status, calls, added, embedding_cache,
               profile_embedding_cache, cache_file>>

(***************************************************************************)
(* api/main.py.                                                            *)
(***************************************************************************)
BackgroundLimit == 10

\* run_analysis_background after analyze_taste: get_recommendations with
\* limit 10, then the "complete" status with the result; any exception
\* (analyze_taste raised, or its error dictionary has no song_count)
\* records "error".
BackgroundFinish(c, catalog, gorder) ==
  /\ calls[c].pc = "bg_finish"
  /\ LET p == SlotProc(c)
         u == calls[c].user
     IN IF calls[c].result = Raised
        THEN /\ analysis_status' = [analysis_status EXCEPT ![p][u] =
                  [status |-> "error", recommendations |-> <<>>]]
             /\ UNCHANGED user_profiles
        ELSE /\ gorder \in GenreOrders(p, u, <<>>)
             /\ user_profiles' = CacheAfterLoad(p, u)
             /\ analysis_status' = [analysis_status EXCEPT ![p][u] =
                  IF calls[c].result = ErrorResult
                  THEN [status |-> "error", recommendations |-> <<>>]
                  ELSE [status |-> "complete",
                        recommendations |->
                          ServiceRecommendations(p, u, BackgroundLimit, <<>>, catalog,
                                                 gorder, <<>>, {}, {}).recs]]
  /\ calls' = [calls EXCEPT ![c] = IdleCall]
  /\ UNCHANGED <<store, added, nops, ret, embedding_cache,
               profile_embedding_cache, cache_file>>

\* GET /api/v1/recommendations, lines 1062-1125.
ApiGetRecommendations(p, u, limit, context, genre, catalog, gorder, history, failing, failq) ==
  /\ CanServe(p)
  /\ nops < MaxOps
  /\ nops' = nops + 1
  /\ IF user_profiles[p][u] = NoProfile
     THEN /\ ret' =
               [op |-> "api_recommendations", proc |-> p, user |-> u,
                limit |-> limit, persisted |-> store[u] # NoProfile,
                status |-> analysis_status[p][u].status,
                recommendations |->
                  IF analysis_status[p][u].status = "complete"
                       /\ analysis_status[p][u].recommendations # <<>>
                  THEN analysis_status[p][u].recommendations
                  ELSE <<>>,
                message |->
                  IF analysis_status[p][u].status = "complete"
                       /\ analysis_status[p][u].recommendations # <<>>
                  THEN "analysis_result"
                  ELSE IF analysis_status[p][u].status = "processing"
                       THEN "Analysis in progress"
                       ELSE "No taste profile found"]
          /\ UNCHANGED user_profiles
     ELSE /\ gorder \in GenreOrders(p, u, genre)
          /\ user_profiles' = CacheAfterLoad(p, u)
          /\ ret' =
               [op |-> "api_recommendations", proc |-> p, user |-> u,
                limit |-> limit, persisted |-> store[u] # NoProfile,
                status |-> analysis_status[p][u].status,
                recommendations |->
                  ServiceRecommendations(p, u, limit, genre, catalog, gorder,
                                         history, failing, failq).recs,
                message |-> "ok"]
  /\ UNCHANGED <<store, analysis_status, calls, added, embedding_cache,
               profile_embedding_cache, cache_file>>

(***************************************************************************)
(* Inputs of the requests.                                                 *)
(***************************************************************************)
\* What the remote catalogue may hold: one artist per entry.
CatalogPool ==
  {Song("A", <<"X">>, <<"rock">>),
   Song("b", <<"x">>, <<"rock">>),
   Song("c", <<"X">>, <<"pop">>),
   Song("d", <<"x">>, <<>>),
   Song("B", <<"y">>, <<"rock">>),
   Song("d", <<"">>, <<"rock">>)}

\* The catalogue holds each entry once.
Catalogs ==
  {cat \in SeqsUpTo(CatalogPool, MaxCat) :
     \A i, j \in DOMAIN cat : i # j => cat[i] # cat[j]}

SmallCatalogs == {<<Song("b", <<"x">>, <<"rock">>)>>}

Limits == 0..MaxLimit

GenreFilters == {<<>>, <<"Rock">>}

Entry(t, as, done, dur, plays) ==
  [song_title |-> t, artists |-> as, completed |-> done,
   duration_seconds |-> dur, play_count |-> plays]

\* Listening-history rows: a completed play, a completed play of under ten
\* seconds, a skip, a long play repeated three times, and a row without a
\* duration.
HistoryPool ==
  {Entry("b", <<"x">>, TRUE, 200, 1),
   Entry("B", <<"X">>, TRUE, 5, 1),
   Entry("c", <<"X">>, FALSE, 5, 1),
   Entry("d", <<"x">>, FALSE, 100, 3),
   Entry("b", <<"x">>, FALSE, NoDuration, 1)}

Histories == SeqsUpTo(HistoryPool, MaxHist)

\* The histories of the recommendation requests.
ShortHistories ==
  {<<>>, <<Entry("d", <<"x">>, FALSE, 100, 3)>>, <<Entry("c", <<"X">>, FALSE, 5, 1)>>}

\* Candidates whose embedding may fail during scoring.
FailingSets == {{}, {<<"b", "x">>}}

\* The queries (lower-cased) for which both remote sources fail.
FailingQueries == {{}, {"x", "a"}, {"rock"}}

(***************************************************************************)
(* The service: concurrent requests on the profile of a user.              *)
(***************************************************************************)
Next ==
  \/ \E c \in Slots, u \in Users, songs \in UpdateLists, w \in Weights,
        e \in BOOLEAN : StartUpdate(c, u, songs, w, e)
  \/ \E c \in Slots, ok \in BOOLEAN : UpdateCommit(c, ok)
  \/ \E c \in Slots, ok \in BOOLEAN : CreateSave(c, ok)
  \/ \E c \in Slots : UpdateReturn(c)
  \/ \E c \in Slots, u \in Users, seeds \in AnalyzeLists, bg \in BOOLEAN,
        e \in BOOLEAN : StartAnalyze(c, u, seeds, bg, e)
  \/ \E c \in Slots, ok \in BOOLEAN : AnalyzeSave(c, ok)
  \/ \E c \in Slots : AnalyzeCache(c)
  \/ \E c \in Slots, cat \in SmallCatalogs, g \in SeqsUpTo(Genres, 2) :
        BackgroundFinish(c, cat, g)
  \/ \E p \in Procs, u \in Users, cat \in SmallCatalogs, g \in SeqsUpTo(Genres, 2) :
        GetRecommendations(p, u, 1, NoContext, <<>>, cat, g, <<>>, {}, {})
  \/ \E p \in Procs, u \in Users, cat \in SmallCatalogs, g \in SeqsUpTo(Genres, 2) :
        ApiGetRecommendations(p, u, 1, NoContext, <<>>, cat, g, <<>>, {}, {})
  \/ \E p \in Procs, u \in Users : GetTasteProfile(p, u)

Spec == Init /\ [][Next]_vars

(***************************************************************************)
(* The recommendation pipeline on a stored profile, over all inputs.       *)
(***************************************************************************)
PipelineSeeds ==
  {<<SongA>>, <<SongA, SongB>>, <<Song("d", <<>>, <<"rock">>)>>}

InitPipeline ==
  /\ store \in [Users -> {NewProfile(s) : s \in PipelineSeeds}]
  /\ user_profiles = [p \in Procs |-> [u \in Users |-> NoProfile]]
  /\ analysis_status = [p \in Procs |-> [u \in Users |-> NoStatus]]
  /\ calls = [c \in Slots |-> IdleCall]
  /\ added = [u \in Users |-> {}]
  /\ nops = 0
  /\ ret = NoRet
  /\ embedding_cache = EmptyCache
  /\ profile_embedding_cache = EmptyCache
  /\ cache_file = EmptyCache

\* One request per behaviour.
\* Failing queries are explored with an empty history and no scoring failure:
\* the candidate pool depends on neither of the two.
NextPipeline ==
  /\ ret = NoRet
  /\ \E u \in Users, limit \in Limits, genre \in GenreFilters, cat \in Catalogs,
        h \in ShortHistories, f \in FailingSets, fq \in FailingQueries :
          /\ fq = {} \/ (h = <<>> /\ f = {})
          /\ \E g \in GenreOrders(1, u, genre) :
               GetRecommendations(1, u, limit, NoContext, genre, cat, g, h, f, fq)

SpecPipeline == InitPipeline /\ [][NextPipeline]_vars

(***************************************************************************)
(* Requests that carry a context, on a catalogue whose titles hold mood    *)
(* keywords.                                                               *)
(***************************************************************************)
ContextPool ==
  {Song("calm", <<"x">>, <<"rock">>),
   Song("fast", <<"X">>, <<"pop">>),
   Song("b", <<"x">>, <<"rock", "ambient">>),
   Song("d", <<"x">>, <<>>)}

ContextCatalogs ==
  {cat \in SeqsUpTo(ContextPool, MaxCat) :
     \A i, j \in DOMAIN cat : i # j => cat[i] # cat[j]}

\* The context dictionaries of the endpoint: none, one without a mood, and
\* moods in either case.
Contexts ==
  {NoContext, [mood |-> None], [mood |-> "calm"], [mood |-> "Calm"],
   [mood |-> "energetic"]}

NextContext ==
  /\ ret = NoRet
  /\ \E u \in Users, limit \in Limits, context \in Contexts,
        cat \in ContextCatalogs, h \in ShortHistories :
          \E g \in GenreOrders(1, u, <<>>) :
            GetRecommendations(1, u, limit, context, <<>>, cat, g, h, {}, {})

SpecContext == InitPipeline /\ [][NextContext]_vars

(***************************************************************************)
(* The feedback table of a listening history.                              *)
(***************************************************************************)
FeedbackScores(history) ==
  /\ ret' = [op |-> "feedback_scores", history |-> history,
             table |-> GetFeedbackScores(history)]
  /\ UNCHANGED <<store, user_profiles, analysis_status, calls, added, nops,
               embedding_cache,
               profile_embedding_cache, cache_file>>

NextFeedback == ret = NoRet /\ \E h \in Histories : FeedbackScores(h)

SpecFeedback == Init /\ [][NextFeedback]_vars


(***************************************************************************)
(* The embedding service on its own: calls of embed_song and               *)
(* embed_songs_batch on one cache.                                         *)
(***************************************************************************)
\* Two embedding ids, each written in different ways (case, white space,
\* order of the artists, order of the genres).
EmbedSongs ==
  {Song("a", <<"x", "y">>, <<"rock">>),
   Song("a", <<"y", "x">>, <<"rock">>),
   Song("a ", <<"X", "y">>, <<"rock">>),
   Song("b", <<"x">>, <<"pop", "rock">>),
   Song("b", <<"x">>, <<"rock", "pop">>)}

EmbedBatches == SeqsUpTo(EmbedSongs, MaxBatch)

\* The song list has an id that a call with use_cache finds missing: the
\* call then ends with _save_cache().
CacheMiss(cache, songs, use_cache) ==
  use_cache /\ \E i \in DOMAIN songs : EmbeddingId(songs[i]) \notin DOMAIN cache

\* _save_cache: pickle.dump of the instance's map over embeddings.pkl.
SaveCache(file, cache) == cache

\* embed_song of the recommendation service's EmbeddingService (scoring).
EmbedSongCall(song, use_cache) ==
  /\ embedding_cache' = EmbedSongCached(embedding_cache, song, use_cache).cache
  /\ cache_file' = IF CacheMiss(embedding_cache, <<song>>, use_cache)
                   THEN SaveCache(cache_file, embedding_cache')
                   ELSE cache_file
  /\ UNCHANGED profile_embedding_cache
  /\ ret' = [op |-> "embed_song", songs |-> <<song>>,
             vectors |-> <<EmbedSongCached(embedding_cache, song, use_cache).vector>>]
  /\ UNCHANGED <<store, user_profiles, analysis_status, calls, added, nops>>

\* embed_songs_batch of the recommendation service's EmbeddingService
\* (analyze_taste).
EmbedSongsBatchCall(songs, use_cache) ==
  /\ embedding_cache' = EmbedSongsBatchCached(embedding_cache, songs, use_cache).cache
  /\ cache_file' = IF CacheMiss(embedding_cache, songs, use_cache)
                   THEN SaveCache(cache_file, embedding_cache')
                   ELSE cache_file
  /\ UNCHANGED profile_embedding_cache
  /\ ret' = [op |-> "embed_songs_batch", songs |-> songs,
             vectors |-> EmbedSongsBatchCached(embedding_cache, songs, use_cache).vectors]
  /\ UNCHANGED <<store, user_profiles, analysis_status, calls, added, nops>>

NextEmbedding ==
  \/ \E song \in EmbedSongs, use \in BOOLEAN : EmbedSongCall(song, use)
  \/ \E songs \in EmbedBatches, use \in BOOLEAN : EmbedSongsBatchCall(songs, use)

\* A new EmbeddingService with no cache file, in a process without profiles.
InitEmbedding ==
  /\ store = [u \in Users |-> NoProfile]
  /\ user_profiles = [p \in Procs |-> [u \in Users |-> NoProfile]]
  /\ analysis_status = [p \in Procs |-> [u \in Users |-> NoStatus]]
  /\ calls = [c \in Slots |-> IdleCall]
  /\ added = [u \in Users |-> {}]
  /\ nops = 0
  /\ ret = NoRet
  /\ embedding_cache = EmptyCache
  /\ profile_embedding_cache = EmptyCache
  /\ cache_file = EmptyCache

SpecEmbedding == InitEmbedding /\ [][NextEmbedding]_vars

(***************************************************************************)
(* The two EmbeddingService instances of one process and their cache file. *)
(***************************************************************************)
\* embed_songs_batch of the taste-profile service's EmbeddingService
\* (update_profile_with_new_songs, _create_profile_from_songs).
ProfileEmbedSongsBatchCall(songs, use_cache) ==
  /\ profile_embedding_cache' =
       EmbedSongsBatchCached(profile_embedding_cache, songs, use_cache).cache
  /\ cache_file' = IF CacheMiss(profile_embedding_cache, songs, use_cache)
                   THEN SaveCache(cache_file, profile_embedding_cache')
                   ELSE cache_file
  /\ ret' = [op |-> "embed_songs_batch", songs |-> songs,
             vectors |-> EmbedSongsBatchCached(profile_embedding_cache, songs,
                                               use_cache).vectors]
  /\ UNCHANGED <<store, user_profiles, analysis_status, calls, added, nops,
                 embedding_cache>>

CacheFileSongs ==
  {Song("a", <<"x", "y">>, <<"rock">>),
   Song("a ", <<"X", "y">>, <<"rock">>),
   Song("b", <<"x">>, <<"pop", "rock">>),
   Song("c", <<"y">>, <<>>)}

CacheFileBatches == SeqsUpTo(CacheFileSongs, MaxBatch) \ {<<>>}

\* The services call the embedding with the default use_cache=True.
NextCacheFile ==
  \/ \E song \in CacheFileSongs : EmbedSongCall(song, TRUE)
  \/ \E songs \in CacheFileBatches : EmbedSongsBatchCall(songs, TRUE)
  \/ \E songs \in CacheFileBatches : ProfileEmbedSongsBatchCall(songs, TRUE)

\* Both instances are constructed at start-up, when no cache file exists.
SpecCacheFile == InitEmbedding /\ [][NextCacheFile]_vars

(***************************************************************************)
(* analyze_taste and update_profile_with_songs calls of the processes      *)
(* while neither the store nor the embedding model fails.                  *)
(***************************************************************************)
NextWriters ==
  \/ \E c \in Slots, u \in Users, songs \in UpdateLists, w \in Weights :
        StartUpdate(c, u, songs, w, TRUE)
  \/ \E c \in Slots : UpdateCommit(c, TRUE)
  \/ \E c \in Slots : CreateSave(c, TRUE)
  \/ \E c \in Slots : UpdateReturn(c)
  \/ \E c \in Slots, u \in Users, seeds \in AnalyzeLists, bg \in BOOLEAN :
        StartAnalyze(c, u, seeds, bg, TRUE)
  \/ \E c \in Slots : AnalyzeSave(c, TRUE)
  \/ \E c \in Slots : AnalyzeCache(c)
  \/ \E c \in Slots, cat \in SmallCatalogs, g \in SeqsUpTo(Genres, 2) :
        BackgroundFinish(c, cat, g)

SpecWriters == Init /\ [][NextWriters]_vars

(***************************************************************************)
(* Updates of one process on rows with any stored taste vector.            *)
(***************************************************************************)
\* The rows an update may find: a profile of this model, a row without a
\* taste vector, and a row whose vector has another dimension (written with
\* another embedding model).
BlendProfiles ==
  {NewProfile(<<SongA>>),
   [NewProfile(<<SongA>>) EXCEPT !.taste_vector = <<>>],
   [NewProfile(<<SongA>>) EXCEPT !.taste_vector = <<65, 0, 0>>]}

BlendLists == {<<SongB>>, <<SongB, SongC>>, <<SongC, SongC>>}

InitBlend ==
  /\ store \in [Users -> BlendProfiles]
  /\ user_profiles = [p \in Procs |-> [u \in Users |-> NoProfile]]
  /\ analysis_status = [p \in Procs |-> [u \in Users |-> NoStatus]]
  /\ calls = [c \in Slots |-> IdleCall]
  /\ added = [u \in Users |-> {}]
  /\ nops = 0
  /\ ret = NoRet
  /\ embedding_cache = EmptyCache
  /\ profile_embedding_cache = EmptyCache
  /\ cache_file = EmptyCache

NextBlend ==
  \/ \E u \in Users, songs \in BlendLists, w \in Weights :
        StartUpdate(1, u, songs, w, TRUE)
  \/ UpdateCommit(1, TRUE)
  \/ UpdateReturn(1)

SpecBlend == InitBlend /\ [][NextBlend]_vars

(***************************************************************************)
(* The diversity filter on sorted lists of scored candidates.              *)
(***************************************************************************)
MaxScored == 5

\* Songs of five genre signatures ("", "rock", "pop", "pop|rock",
\* "ambient"), two of them by the same artist.
DiversityPool ==
  {Song("a", <<"x">>, <<>>),
   Song("b", <<"y">>, <<"rock">>),
   Song("c", <<"z">>, <<"pop">>),
   Song("d", <<"v">>, <<"Rock", "pop">>),
   Song("e", <<"w">>, <<"ambient">>),
   Song("f", <<"w">>, <<"rock">>)}

TopScore == 9000
ScoreStep == 500

\* The scored candidates as the pipeline hands them over: each song once,
\* sorted by score, highest first.
ScoredLists ==
  {[i \in DOMAIN songs |->
      [song |-> songs[i], similarity_score |-> TopScore - ScoreStep * (i - 1)]] :
     songs \in {q \in SeqsUpTo(DiversityPool, MaxScored) :
                  \A i, j \in DOMAIN q : i # j => q[i] # q[j]}}

\* _apply_diversity_constraints(candidates, limit): accepted is diverse_list
\* before the final sort, result the returned list.
DiversityCall(candidates, limit) ==
  /\ ret = NoRet
  /\ ret' = [op |-> "apply_diversity_constraints", candidates |-> candidates,
             limit |-> limit,
             accepted |-> AcceptedList(candidates, limit),
             result |-> ApplyDiversityConstraints(candidates, limit)]
  /\ UNCHANGED <<store, user_profiles, analysis_status, calls, added, nops,
                 embedding_cache,
               profile_embedding_cache, cache_file>>

NextDiversity ==
  \E candidates \in ScoredLists, limit \in {2, MaxScored} :
    DiversityCall(candidates, limit)

SpecDiversity == InitEmbedding /\ [][NextDiversity]_vars

\* ------------------------------------------------------------------
\* Properties of one recommendation request (SpecPipeline).
\* ------------------------------------------------------------------

\* The request whose result ret holds came from get_recommendations.
Served == ret.op = "get_recommendations"

\* The lower-cased first artist of a returned record.
RecArtist(rec) == Lower(FirstArtist(rec.song))

\* How many candidates of the scored list the cap of two per first artist
\* can accept.
Acceptable(scored) ==
  LET keys == {Lower(FirstArtist(scored[i].song)) : i \in DOMAIN scored}
      count(k) ==
        Cardinality({i \in DOMAIN scored : Lower(FirstArtist(scored[i].song)) = k})
      RECURSIVE Sum(_)
      Sum(ks) ==
        IF ks = {} THEN 0
        ELSE LET k == CHOOSE x \in ks : TRUE
             IN Min(count(k), 2) + Sum(ks \ {k})
  IN Sum(keys)

\* The position of a song in the scored list (0 when absent).
ScoredIndex(scored, song) ==
  IF \E i \in DOMAIN scored : scored[i].song = song
  THEN CHOOSE i \in DOMAIN scored : scored[i].song = song
  ELSE 0

\* C4: a list returned by get_recommendations holds at most two records
\* whose first artist is the same, compared case-insensitively.
C4_ArtistCap ==
  Served =>
    \A i \in DOMAIN ret.run.recs :
      Cardinality({j \in DOMAIN ret.run.recs :
                     RecArtist(ret.run.recs[j]) = RecArtist(ret.run.recs[i])}) <= 2

\* C4 witness: three scored candidates share a first artist, the request
\* asks for at least three records, and only two of that artist are returned.
C4_Witness ==
  /\ Served
  /\ ret.limit >= 3
  /\ \E k \in {"x", "y", ""} :
       /\ Cardinality({i \in DOMAIN ret.run.scored :
                         Lower(FirstArtist(ret.run.scored[i].song)) = k}) >= 3
       /\ Cardinality({j \in DOMAIN ret.run.recs :
                         RecArtist(ret.run.recs[j]) = k}) = 2

\* C5: no record returned by get_recommendations has the identity key
\* (lower-cased title with the first artist) of a seed song of the profile.
C5_NoSeedReturned ==
  Served =>
    \A i \in DOMAIN ret.run.recs :
      \A k \in DOMAIN ret.profile.seed_songs :
        TitleKey(ret.run.recs[i].song) # TitleKey(ret.profile.seed_songs[k])

\* C5 witness: the catalogue holds a song with the identity key of a seed
\* song, retrieval finds it by the seed's artist, and the request still
\* returns records.
C5_Witness ==
  /\ Served
  /\ ret.run.recs # <<>>
  /\ \E n \in DOMAIN ret.catalog :
       \E k \in DOMAIN ret.profile.seed_songs :
         /\ TitleKey(ret.catalog[n]) = TitleKey(ret.profile.seed_songs[k])
         /\ ret.catalog[n] # ret.profile.seed_songs[k]
         /\ HasArtists(ret.profile.seed_songs[k])

\* C6: every score returned by get_recommendations lies between 0.0 and
\* 1.0 inclusive.
C6_ScoreInUnitInterval ==
  Served =>
    \A i \in DOMAIN ret.run.recs :
      /\ ret.run.recs[i].score >= 0
      /\ ret.run.recs[i].score <= ScoreScale

\* C8: the returned list is in non-increasing order of the final score.
C8_SortedByScore ==
  Served =>
    \A i, j \in DOMAIN ret.run.recs :
      i < j => ret.run.recs[i].score >= ret.run.recs[j].score

\* C8 witness: a diversity penalty lowered a record's score and the record
\* is returned after one that followed it in the scored order.
C8_Witness ==
  /\ Served
  /\ \E i, j \in DOMAIN ret.run.recs :
       /\ i < j
       /\ ScoredIndex(ret.run.scored, ret.run.recs[j].song) > 0
       /\ ScoredIndex(ret.run.scored, ret.run.recs[i].song)
            > ScoredIndex(ret.run.scored, ret.run.recs[j].song)
       /\ ret.run.recs[j].score
            < ret.run.scored[ScoredIndex(ret.run.scored, ret.run.recs[j].song)].similarity_score

\* C9: get_recommendations returns at most limit records, and exactly
\* limit records when the cap of two per first artist can accept at least
\* limit of the scored candidates.
C9_LimitRespected ==
  Served =>
    /\ Len(ret.run.recs) <= ret.limit
    /\ Acceptable(ret.run.scored) >= ret.limit => Len(ret.run.recs) = ret.limit

\* C9 witness: more candidates were scored than asked for, the cap leaves
\* enough of them, and exactly limit records are returned.
C9_Witness ==
  /\ Served
  /\ ret.limit >= 2
  /\ Len(ret.run.scored) > ret.limit
  /\ Acceptable(ret.run.scored) >= ret.limit
  /\ Acceptable(ret.run.scored) < Len(ret.run.scored)
  /\ Len(ret.run.recs) = ret.limit


\* ------------------------------------------------------------------
\* Properties of the feedback table (SpecFeedback).
\* ------------------------------------------------------------------

\* C7: whenever the feedback table is non-empty, the largest absolute value
\* of its entries is 1.0.
C7_FeedbackNormalized ==
  (ret.op = "feedback_scores" /\ DOMAIN ret.table # {}) =>
    MaxAbs(ret.table) = SimScale

\* ------------------------------------------------------------------
\* Properties of the profile operations (Spec).
\* ------------------------------------------------------------------

\* C1: once no update is in flight, the persisted seed_songs hold every
\* song added by an update that returned successfully since the profile
\* was last analysed, and song_count counts them all.
C1_NoLostUpdate ==
  (\A c \in Slots : Free(c)) =>
    \A u \in Users :
      IF store[u] = NoProfile THEN added[u] = {}
      ELSE /\ added[u] \subseteq SongKeys(store[u].seed_songs)
           /\ store[u].song_count = Len(store[u].seed_songs)

\* C2: analyze_taste on a non-empty seed list returns a profile (the one
\* it hands to the store) whose song_count is the number of distinct
\* identity keys of the list.
C2_SongCountDistinct ==
  (ret.op = "analyze_taste" /\ ret.songs # <<>> /\ ret.result # Raised) =>
    ret.result.song_count = Cardinality(SongKeys(ret.songs))

\* The step on which slot c takes up an update with no songs for a user
\* who has a profile.
EmptyUpdateStart(c) ==
  /\ Free(c)
  /\ calls'[c].op = "update"
  /\ calls'[c].songs = <<>>
  /\ calls'[c].existed

\* The step on which that update returns.
EmptyUpdateEnd(c) ==
  /\ calls[c].pc = "upd_return"
  /\ calls[c].op = "update"
  /\ calls[c].songs = <<>>
  /\ calls[c].existed
  /\ calls'[c].pc = "idle"

\* C3 as stated: an update with no songs for a user who has a profile
\* returns the prior profile and changes neither the persisted profile nor
\* the cached profile.
C3_EmptyUpdateNoOp ==
  [][\A c \in Slots :
       /\ EmptyUpdateStart(c) =>
            /\ store' = store
            /\ user_profiles' = user_profiles
       /\ EmptyUpdateEnd(c) =>
            /\ ret'.result = store[calls[c].user]
            /\ store' = store
            /\ user_profiles' = user_profiles]_vars

\* C3 amended: an update with no songs for a user who has a profile
\* returns the persisted profile it read and writes nothing to the store;
\* the cache entry of the calling process is set to the returned profile
\* and no other cache entry changes.
C3_EmptyUpdateReturnsStored ==
  [][\A c \in Slots :
       /\ EmptyUpdateStart(c) =>
            /\ calls'[c].result = store[calls'[c].user]
            /\ store' = store
            /\ user_profiles' = user_profiles
       /\ EmptyUpdateEnd(c) =>
            /\ ret'.result = calls[c].loaded
            /\ ret'.result # NoProfile
            /\ store' = store
            /\ user_profiles' =
                 [user_profiles EXCEPT ![SlotProc(c)][calls[c].user] = calls[c].loaded]]_vars

\* C3 witness: an update with no songs has returned the persisted profile
\* to a process whose cache now holds it.
C3_Witness ==
  /\ ret.op = "update_profile_with_songs"
  /\ ret.existed
  /\ ret.songs = <<>>
  /\ ret.weight = 10
  /\ ret.result = store[ret.user]
  /\ user_profiles[ret.proc][ret.user] = ret.result

\* C10: a recommendation request for a user with no persisted profile and
\* no analysis pending returns no records, at the service and at the API,
\* and creates no profile in the store or in a cache.
C10_NoProfileEmpty ==
  [][/\ (ret' # ret /\ ret'.op = "get_recommendations"
          /\ ~ret'.persisted /\ ~ret'.pending) =>
          /\ ret'.run.recs = <<>>
          /\ store' = store
          /\ user_profiles' = user_profiles
     /\ (ret' # ret /\ ret'.op = "api_recommendations"
          /\ ~ret'.persisted /\ ret'.status # "processing") =>
          /\ ret'.recommendations = <<>>
          /\ store' = store
          /\ user_profiles' = user_profiles]_vars


\* ------------------------------------------------------------------
\* Failures inside one recommendation request (SpecPipeline).
\* ------------------------------------------------------------------

\* The songs of a list of scored candidates.
ScoredSongs(scored) == {scored[i].song : i \in DOMAIN scored}

\* C12: a candidate whose scoring raises is absent from the returned list,
\* every other candidate of the pool is scored, with the score it gets on
\* its own, and the request returns.
C12_ScoringFailureDropped ==
  Served =>
    /\ \A i \in DOMAIN ret.run.recs :
         TitleKey(ret.run.recs[i].song) \notin ret.failing
    /\ ScoredSongs(ret.run.scored) =
         {ret.run.pool[n] : n \in {m \in DOMAIN ret.run.pool :
                                     TitleKey(ret.run.pool[m]) \notin ret.failing}}
    /\ \A i \in DOMAIN ret.run.scored :
         ret.run.scored[i].similarity_score =
           FinalScore(ret.profile.taste_vector, ret.run.scored[i].song, ret.genre,
                      ret.run.feedback)

\* C12 witness: the first candidate of the pool raised during scoring, a
\* later one was scored, and the request returned limit records.
C12_Witness ==
  /\ Served
  /\ Len(ret.run.pool) >= 2
  /\ TitleKey(ret.run.pool[1]) \in ret.failing
  /\ ret.limit >= 1
  /\ Len(ret.run.recs) = ret.limit

\* The queries a request issues.
IssuedQueries(seeds, genre, gorder) ==
  Range(ArtistQueries(seeds)) \cup Range(TitleQueries(seeds))
    \cup Range(Take(genre, FilterGenres)) \cup Range(Take(gorder, FallbackGenres))

\* The keys of the seed songs.
SeedKeys(seeds) == {TitleKey(seeds[k]) : k \in DOMAIN seeds}

\* C13: a query whose retrieval fails contributes no candidate and does not
\* end the call: every candidate of the pool answers a query that did not
\* fail, and every catalogue song that is no seed song and answers an
\* artist or title query that did not fail is in the pool, whatever
\* queries failed before it.
C13_RetrievalFailureIsolated ==
  Served =>
    LET seeds == ret.profile.seed_songs
        pool == ret.run.pool
    IN /\ \A i \in DOMAIN pool :
            \E q \in IssuedQueries(seeds, ret.genre, ret.gorder) :
              Lower(q) \notin ret.failq /\ Matches(q, pool[i])
       /\ (\A k \in DOMAIN seeds : HasArtists(seeds[k])) =>
            \A q \in Range(ArtistQueries(seeds)) \cup Range(TitleQueries(seeds)) :
              \A n \in DOMAIN ret.catalog :
                (/\ Lower(q) \notin ret.failq
                 /\ Matches(q, ret.catalog[n])
                 /\ TitleKey(ret.catalog[n]) \notin SeedKeys(seeds)) =>
                  \E i \in DOMAIN pool : TitleKey(pool[i]) = TitleKey(ret.catalog[n])

\* C13 witness: the first artist query and the first title query failed,
\* the pool holds a song found by the second title query, and a song that
\* only the failed queries would have found is not in the pool.
C13_Witness ==
  /\ Served
  /\ ret.failq = {"x", "a"}
  /\ Len(ret.profile.seed_songs) = 2
  /\ \E i \in DOMAIN ret.run.pool : ret.run.pool[i].title = "b"
  /\ \E n \in DOMAIN ret.catalog :
       /\ ret.catalog[n].title = "d"
       /\ \A i \in DOMAIN ret.run.pool : ret.run.pool[i] # ret.catalog[n]


(***************************************************************************)
(* C11: the merge of update_profile_with_songs is idempotent.              *)
(***************************************************************************)
\* The row a completed update left behind: what it committed, else what it
\* had read.
RowAfter(r) == IF r.saved THEN r.result ELSE r.loaded

\* The update returning in this step follows, with the identical song list,
\* an update that returned a profile, and has read the row that one left.
SecondIdenticalUpdate ==
  /\ ret.op = "update_profile_with_songs"
  /\ ret'.op = "update_profile_with_songs"
  /\ \E c \in Slots : calls[c].pc = "upd_return" /\ calls'[c].pc = "idle"
  /\ ret'.user = ret.user
  /\ ret'.songs = ret.songs
  /\ ret.result # NoProfile
  /\ ret'.result # NoProfile
  /\ ret'.loaded = RowAfter(ret)

\* C11: calling update_profile_with_songs twice in a row with the identical
\* song list, at any weights, leaves song_count and the set of seed-song
\* identity keys after the second call equal to those after the first call,
\* also when the list names a song twice.
C11_MergeIdempotent ==
  [][SecondIdenticalUpdate =>
       /\ ret'.result.song_count = ret.result.song_count
       /\ SongKeys(ret'.result.seed_songs) = SongKeys(ret.result.seed_songs)]_vars

\* The second of two identical updates with a repeated song has returned:
\* it read a profile that already held the song and its blend moved the
\* taste vector.
C11_Witness ==
  /\ ret.op = "update_profile_with_songs"
  /\ ret.songs = <<SongC, SongC>>
  /\ ret.saved
  /\ ret.existed
  /\ SongKey(SongC) \in SongKeys(ret.loaded.seed_songs)
  /\ ret.result.song_count = ret.loaded.song_count
  /\ ret.result.taste_vector # ret.loaded.taste_vector


(***************************************************************************)
(* C14: the cache after a successful update.                               *)
(***************************************************************************)
ReadOps == {"get_taste_profile", "get_recommendations"}

\* An update of slot c returns a profile in this step.
UpdateReturnsProfile(c) ==
  /\ calls[c].pc = "upd_return"
  /\ calls'[c].pc = "idle"
  /\ calls[c].result # NoProfile

\* The last call to return was an update that committed a changed profile
\* over an existing one, and a read of the same user returns in this step.
ReadAfterUpdate ==
  /\ ret.op = "update_profile_with_songs"
  /\ ret.existed
  /\ ret.saved
  /\ ret.result # ret.loaded
  /\ ret'.op \in ReadOps
  /\ ret'.user = ret.user

\* C14: when update_profile_with_songs returns successfully, the cache
\* entry of the user is the returned profile, and a get_taste_profile or
\* get_recommendations issued after the return does not use the profile the
\* update had read.
C14_NoStaleReadAfterUpdate ==
  [][/\ \A c \in Slots :
          UpdateReturnsProfile(c) =>
            user_profiles'[SlotProc(c)][calls[c].user] = calls[c].result
     /\ ReadAfterUpdate => ret'.profile # ret.loaded]_vars


(***************************************************************************)
(* C15: analyze_taste with an empty seed list.                             *)
(***************************************************************************)
\* analyze_taste is called with an empty list in this step.
EmptyAnalyze ==
  /\ nops' = nops + 1
  /\ ret'.op = "analyze_taste"
  /\ ret'.songs = <<>>
  /\ \A c \in Slots :
       calls'[c] # calls[c] => (calls'[c].op = "analyze" /\ calls'[c].songs = <<>>)

\* C15: analyze_taste(u, []) ends with a validation error outcome and
\* creates or changes no profile, neither in the store nor in the cache of
\* any process.
C15_EmptyAnalyzeRejected ==
  [][EmptyAnalyze =>
       /\ ret'.result.status = "error"
       /\ store' = store
       /\ user_profiles' = user_profiles]_vars

\* analyze_taste(u, []) has returned its error for a user with a stored
\* profile.
C15_Witness ==
  /\ ret.op = "analyze_taste"
  /\ ret.songs = <<>>
  /\ ret.result = ErrorResult
  /\ store[ret.user] # NoProfile


(***************************************************************************)
(* C16: store and embedding failures are reported.                         *)
(***************************************************************************)
\* The last call to return was an analyze_taste or update_profile_with_songs
\* with songs whose profile was not written: the embedding model raised, or
\* the save or commit failed.
ReturnedUnpersisted ==
  /\ ret.op \in {"analyze_taste", "update_profile_with_songs"}
  /\ ret.songs # <<>>
  /\ ~ret.saved

\* C16: a call of analyze_taste or update_profile_with_songs whose profile
\* was not persisted ends in an error (an exception, or no profile), never in
\* a returned profile.
C16_FailurePropagates ==
  ReturnedUnpersisted => ret.result \in {Raised, NoProfile}


(***************************************************************************)
(* C17: who writes an existing profile.                                    *)
(***************************************************************************)
\* An update_profile_with_songs call for u writes the row in this step.
UpdateStep(u) ==
  \E c \in Slots :
    /\ calls[c].op = "update"
    /\ calls[c].user = u
    /\ calls[c].pc \in {"upd_commit", "create_save"}
    /\ calls'[c].pc = "upd_return"

\* An analyze_taste call for u saves its profile in this step.
AnalyzeStep(u) ==
  \E c \in Slots :
    /\ calls[c].op = "analyze"
    /\ calls[c].user = u
    /\ calls[c].pc = "an_save"
    /\ calls'[c].pc = "an_cache"
    /\ store'[u] = NewProfile(calls[c].songs)

\* C17 as stated: once a profile is persisted for a user, its content
\* changes only in an update_profile_with_songs step, and it is never
\* removed.
C17_OnlyUpdateMutates ==
  [][\A u \in Users :
       store[u] # NoProfile =>
         /\ store'[u] # NoProfile
         /\ store'[u] # store[u] => UpdateStep(u)]_vars

\* C17 amended: once a profile is persisted for a user, its content changes
\* only in an update_profile_with_songs step or when an analyze_taste call
\* with songs saves its profile, which then replaces the stored one; a read
\* leaves it unchanged, and it is never removed.
C17_OnlyWritersMutate ==
  [][\A u \in Users :
       store[u] # NoProfile =>
         /\ store'[u] # NoProfile
         /\ store'[u] # store[u] => (UpdateStep(u) \/ AnalyzeStep(u))]_vars

\* An analyze_taste call has replaced a stored profile that an update still
\* in progress had read before.
C17_Witness ==
  \E c, d \in Slots :
    /\ calls[c].pc = "an_cache"
    /\ calls[c].saved
    /\ store[calls[c].user] = calls[c].pending
    /\ calls[d].op = "update"
    /\ calls[d].user = calls[c].user
    /\ calls[d].existed
    /\ calls[d].loaded # calls[c].pending


(***************************************************************************)
(* C18: persisted seed songs are unique by identity key.                   *)
(***************************************************************************)
\* C18: in every reachable state the seed_songs of a persisted profile hold
\* no two songs with the same identity key.
C18_SeedSongsUnique ==
  \A u \in Users :
    store[u] # NoProfile =>
      Cardinality(SongKeys(store[u].seed_songs)) = Len(store[u].seed_songs)


(***************************************************************************)
(* C19: the version of a persisted profile.                                *)
(***************************************************************************)
\* An update_profile_with_songs call with songs commits its profile over
\* the row of u in this step.
UpdateCommitted(u) ==
  \E c \in Slots :
    /\ calls[c].op = "update"
    /\ calls[c].user = u
    /\ calls[c].songs # <<>>
    /\ calls[c].pc = "upd_commit"
    /\ calls'[c].pc = "upd_return"
    /\ calls'[c].saved

\* C19: the version of a persisted profile never decreases, and every
\* successful update_profile_with_songs with a non-empty list strictly
\* increments it.
C19_VersionIncreases ==
  [][\A u \in Users :
       (store[u] # NoProfile /\ store'[u] # NoProfile) =>
         /\ ProfileVersion(store'[u]) >= ProfileVersion(store[u])
         /\ UpdateCommitted(u) =>
              ProfileVersion(store'[u]) > ProfileVersion(store[u])]_vars


(***************************************************************************)
(* C20: embedding as memoization.                                          *)
(***************************************************************************)
\* C20: after any sequence of embed_song and embed_songs_batch calls, every
\* vector a call returns for a song is the vector an embed of that same
\* input on an empty cache returns.
C20_PureMemoization ==
  ret.op \in {"embed_song", "embed_songs_batch"} =>
    \A i \in DOMAIN ret.songs : ret.vectors[i] = EmbedSong(ret.songs[i])

\* ------------------------------------------------------------------
\* C21
\* ------------------------------------------------------------------

\* The mood of a request's context (None when there is none).
ContextMood(context) ==
  IF context = NoContext THEN None ELSE context.mood

\* The score of a candidate when the boost is computed for the given mood.
MoodScore(taste_vector, candidate, genre, feedback_scores, mood) ==
  LET similarity == CosineSimilarity(taste_vector, EmbedSong(candidate))
      base == SimilarityWeight * similarity + GenreWeight * GenreMatch(candidate, genre)
  IN CapScore(ApplyFeedback(ApplyBoost(base, ComputeAudioFeatureBoost(candidate, mood)),
                            GetScore(feedback_scores, TitleKey(candidate))))

\* C21 as stated: every candidate of a request is scored with the boost of
\* the mood of the request's context.
C21_MoodBoostApplied ==
  Served =>
    \A i \in DOMAIN ret.run.scored :
      ret.run.scored[i].similarity_score =
        MoodScore(ret.profile.taste_vector, ret.run.scored[i].song, ret.genre,
                  ret.run.feedback, ContextMood(ret.context))

\* C21: the context of a request has no effect on the scores: every
\* candidate is scored as in the same call without context.
C21_ContextIgnored ==
  Served =>
    \A i \in DOMAIN ret.run.scored :
      ret.run.scored[i].similarity_score =
        MoodScore(ret.profile.taste_vector, ret.run.scored[i].song, ret.genre,
                  ret.run.feedback, None)

\* C21 witness: a request whose context carries a mood scored a candidate
\* with a keyword of that mood, for which the boost of that mood would have
\* given another score.
C21_Witness ==
  /\ Served
  /\ ret.context # NoContext
  /\ \E i \in DOMAIN ret.run.scored :
       /\ ComputeAudioFeatureBoost(ret.run.scored[i].song, ret.context.mood) > 0
       /\ ret.run.scored[i].similarity_score #
            MoodScore(ret.profile.taste_vector, ret.run.scored[i].song, ret.genre,
                      ret.run.feedback, ret.context.mood)

\* ------------------------------------------------------------------
\* C22
\* ------------------------------------------------------------------

\* C22: the candidate pool handed to scoring holds at most 3 x limit
\* candidates.
C22_PoolBounded ==
  Served => Len(ret.run.pool) <= PoolFactor * ret.limit

\* ------------------------------------------------------------------
\* C23
\* ------------------------------------------------------------------

\* The score the k-th accepted candidate had in the list handed to the
\* filter.
ScoreBefore(k) ==
  LET i == CHOOSE j \in DOMAIN ret.candidates :
             ret.candidates[j].song = ret.accepted[k].song
  IN ret.candidates[i].similarity_score

\* The genre signatures of the candidates accepted before the k-th.
RecentSignatures(k) == {GenreKey(ret.accepted[j].song) : j \in 1..(k - 1)}

\* The k-th accepted candidate follows one of the same artist.
FollowsSameArtist(k) ==
  k > 1 /\ RecArtist(ret.accepted[k]) = RecArtist(ret.accepted[k - 1])

\* The score of the k-th accepted candidate after the penalty for a
\* consecutive artist, and with the 5% penalty when repeat is true.
PenalizedScore(k, repeat) ==
  LET s1 == IF FollowsSameArtist(k)
            THEN Quot(ScoreBefore(k) * ConsecutivePenalty, PenaltyUnit)
            ELSE ScoreBefore(k)
  IN IF repeat THEN Quot(s1 * ClusterPenalty, PenaltyUnit) ELSE s1

Filtered == ret.op = "apply_diversity_constraints"

\* C23 as stated: an accepted candidate gets the 5% penalty iff its genre
\* signature is in the recent set, whatever the size of the set.
C23_RepeatAlwaysPenalized ==
  Filtered =>
    \A k \in DOMAIN ret.accepted :
      ret.accepted[k].similarity_score =
        PenalizedScore(k, GenreKey(ret.accepted[k].song) \in RecentSignatures(k))

\* C23: an accepted candidate gets the 5% penalty iff its genre signature is
\* in the recent set and the set holds more than three signatures.
C23_RepeatPenalizedAfterThree ==
  Filtered =>
    \A k \in DOMAIN ret.accepted :
      ret.accepted[k].similarity_score =
        PenalizedScore(k, /\ GenreKey(ret.accepted[k].song) \in RecentSignatures(k)
                          /\ Cardinality(RecentSignatures(k)) > ClusterRepeatAfter)

\* C23 witness: the filter accepted a candidate whose signature was among
\* the four of the recent set, and took 5% off its score.
C23_Witness ==
  /\ Filtered
  /\ \E k \in DOMAIN ret.accepted :
       /\ GenreKey(ret.accepted[k].song) \in RecentSignatures(k)
       /\ Cardinality(RecentSignatures(k)) > ClusterRepeatAfter
       /\ ~FollowsSameArtist(k)
       /\ ret.accepted[k].similarity_score =
            Quot(ScoreBefore(k) * ClusterPenalty, PenaltyUnit)

\* ------------------------------------------------------------------
\* C24
\* ------------------------------------------------------------------

\* The update call of slot 1 has committed and not yet returned.
BlendCommitted ==
  calls[1].pc = "upd_return" /\ calls[1].op = "update" /\ calls[1].saved
    /\ calls[1].existed

\* C24: a committed update of an existing profile with a non-empty song list
\* persists (1 - weight) * v_existing + weight * v_new, v_new being the mean
\* of the embeddings of the new songs, and v_new alone when the existing
\* vector is empty or of another dimension; weight 0 keeps the existing
\* vector and weight 1 persists v_new.
C24_WeightedBlend ==
  BlendCommitted =>
    LET v_existing == calls[1].loaded.taste_vector
        v_new == MeanVector(EmbedSongsBatch(calls[1].songs))
        weight == calls[1].weight
        persisted == store[calls[1].user].taste_vector
    IN IF Len(v_existing) > 0 /\ Len(v_existing) = Len(v_new)
       THEN /\ Len(persisted) = Len(v_new)
            /\ \A i \in DOMAIN persisted :
                 persisted[i] = Quot((WeightScale - weight) * v_existing[i]
                                       + weight * v_new[i], WeightScale)
            /\ weight = 0 => persisted = v_existing
            /\ weight = WeightScale => persisted = v_new
       ELSE persisted = v_new

\* C24 witness: an update with a weight strictly between 0 and 1 persisted a
\* vector that is neither the existing one nor the new mean.
C24_Witness ==
  /\ BlendCommitted
  /\ calls[1].weight \notin {0, WeightScale}
  /\ Len(calls[1].loaded.taste_vector) = Len(store[calls[1].user].taste_vector)
  /\ store[calls[1].user].taste_vector # calls[1].loaded.taste_vector
  /\ store[calls[1].user].taste_vector # MeanVector(EmbedSongsBatch(calls[1].songs))

\* C24 witness: an update of a row whose vector has another dimension
\* persisted the new mean.
C24_WitnessMismatch ==
  /\ BlendCommitted
  /\ Len(calls[1].loaded.taste_vector) = 3
  /\ store[calls[1].user].taste_vector = MeanVector(EmbedSongsBatch(calls[1].songs))

\* ------------------------------------------------------------------
\* C25
\* ------------------------------------------------------------------

\* Every call that was started has completed.
AllCompleted == nops > 0 /\ \A c \in Slots : Free(c)

\* C25: when the calls of an interleaving of analyze_taste and
\* update_profile_with_songs have completed without a failure, every cache
\* entry of the user equals the persisted profile.
C25_CacheEqualsStore ==
  AllCompleted =>
    \A p \in Procs, u \in Users :
      user_profiles[p][u] # NoProfile => user_profiles[p][u] = store[u]

\* ------------------------------------------------------------------
\* C26
\* ------------------------------------------------------------------

\* C26: every value of the feedback table handed to the scorer lies in
\* [-1, 1].
C26_FeedbackInRange ==
  ret.op = "feedback_scores" =>
    \A k \in DOMAIN ret.table : -SimScale <= ret.table[k] /\ ret.table[k] <= SimScale

\* ------------------------------------------------------------------
\* C27
\* ------------------------------------------------------------------

\* C27: a candidate with a positive feedback score is never scored lower,
\* and one with a negative feedback score never higher, than the same
\* candidate without feedback.
C27_FeedbackMonotone ==
  Served =>
    \A i \in DOMAIN ret.run.scored :
      LET song == ret.run.scored[i].song
          fb == GetScore(ret.run.feedback, TitleKey(song))
          plain == FinalScore(ret.profile.taste_vector, song, ret.genre, <<>>)
      IN /\ fb > 0 => ret.run.scored[i].similarity_score >= plain
         /\ fb < 0 => ret.run.scored[i].similarity_score <= plain

\* ------------------------------------------------------------------
\* C28
\* ------------------------------------------------------------------

\* C28: an entry once written to the cache file is in the file after every
\* later save of either instance.
C28_CacheFileAppendOnly ==
  [][\A id \in DOMAIN cache_file : id \in DOMAIN cache_file']_vars

\* ------------------------------------------------------------------
\* C29
\* ------------------------------------------------------------------

\* The update call of slot c, given a non-empty list, returns in this step
\* without having persisted a profile.
UnpersistedUpdateReturns(c) ==
  /\ calls[c].op = "update"
  /\ calls[c].songs # <<>>
  /\ calls[c].pc = "upd_return"
  /\ ~calls[c].saved
  /\ calls'[c].pc = "idle"

\* The save or commit of the update call of slot c fails in this step.
UpdateSaveFails(c) ==
  /\ calls[c].pc \in {"upd_commit", "create_save"}
  /\ calls'[c].pc = "upd_return"
  /\ ~calls'[c].saved

\* C29: an update call that does not persist a profile leaves the store and
\* the cache as they were and returns no profile.
C29_FailedUpdateLeavesNoTrace ==
  [][\A c \in Slots :
       /\ UpdateSaveFails(c) => store' = store /\ user_profiles' = user_profiles
       /\ UnpersistedUpdateReturns(c) =>
            /\ calls[c].result = NoProfile
            /\ store' = store
            /\ user_profiles' = user_profiles]_vars

\* ------------------------------------------------------------------
\* C30
\* ------------------------------------------------------------------

\* C30: the recommendations endpoint does not answer 'No taste profile
\* found' for a user whose profile is persisted.
C30_PersistedProfileFound ==
  (ret.op = "api_recommendations" /\ ret.persisted) =>
    ret.message # "No taste profile found"

====
